---- MODULE Spec2Model ----
(***************************************************************************)
(* A model of the configuration-driven ETL pipeline:                       *)
(*   extract_api      (src/src/extractors/api_adapter.py)                  *)
(*   transform_data   (src/src/transformers/data_transformer.py)           *)
(*   load_to_postgres (src/src/loaders/postgres_loader.py)                 *)
(*   validate_schema  (src/src/validators/schema_validator.py)             *)
(* Each component has its own specification over the shared variables:     *)
(* SpecFetch, SpecTransform, SpecValidate, SpecLoad and SpecLoadFaults;    *)
(* SpecRead runs validate_schema and transform_data over the same pages,   *)
(* SpecPiped runs load_to_postgres over the output of transform_data.      *)
(***************************************************************************)
EXTENDS Integers, Sequences, FiniteSets, Bags, TLC

(***************************************************************************)
(* Bounds of the model.                                                    *)
(***************************************************************************)
\* HTTP attempts one extract_api invocation may make in the model
MaxRequests == 4
\* extract_api invocations for the one (api, logical date) partition
MaxFetches == 2

(***************************************************************************)
(* JSON documents.  A document is a function from paths (sequences of      *)
(* keys) to leaf tokens.  A scalar or an empty container is a document     *)
(* whose only path is <<>>; an object has one path per leaf below it, and  *)
(* an array is laid out like an object whose keys are "#1", "#2", ...      *)
(* Leaf tokens: "null", "true", "false", "{}" (empty object), "[]" (empty  *)
(* array), the numbers "0", "1", "2", "2.5", and any other string, which   *)
(* stands for that JSON string ("" is the empty string, "'3'" the string   *)
(* of the digit 3).                                                        *)
(***************************************************************************)
Leaf(tok) == [p \in {<<>>} |-> tok]

\* Python's None, and the JSON null a parsed body may hold
None == Leaf("null")

IsLeaf(d) == DOMAIN d = {<<>>}

\* the keys under which the elements of an array are laid out, in order
ElemKeys == <<"#1", "#2", "#3", "#4", "#5", "#6">>
ElemKeySet == {ElemKeys[i] : i \in DOMAIN ElemKeys}

\* isinstance(data, list)
IsList(d) == IF IsLeaf(d) THEN d[<<>>] = "[]" ELSE \A p \in DOMAIN d : Head(p) \in ElemKeySet

\* isinstance(data, dict)
IsDict(d) == IF IsLeaf(d) THEN d[<<>>] = "{}" ELSE ~IsList(d)

\* the tokens Python's bool() maps to False
FalsyToks == {"null", "false", "", "0", "{}", "[]"}

\* bool(data)
Truthy(d) == IF IsLeaf(d) THEN d[<<>>] \notin FalsyToks ELSE TRUE

\* the array of the documents elems[1], elems[2], ...
ListOf(elems) ==
    IF elems = <<>> THEN Leaf("[]")
    ELSE [q \in UNION {{<<ElemKeys[i]>> \o p : p \in DOMAIN elems[i]} : i \in DOMAIN elems} |->
           LET i == CHOOSE j \in DOMAIN elems : ElemKeys[j] = Head(q)
           IN  elems[i][Tail(q)]]

\* dict.get(key, None) on a dict
Get(d, key) ==
    LET below == {p \in DOMAIN d : p # <<>> /\ Head(p) = key}
    IN  IF below = {} THEN None
        ELSE [q \in {Tail(p) : p \in below} |-> d[<<key>> \o q]]

(***************************************************************************)
(* Configuration of extract_api.                                           *)
(***************************************************************************)
PaginationTypes == {"page", "cursor", "next_link", "none"}
StartPages == {1, 2}
BaseUrl == "base"
cursor_key == "cursor"
\* pagination['next_link_key'].split('.') for the key "links.next"
next_link_key == <<"links", "next">>

\* Retry(total=3, status_forcelist=[429, 500, 502, 503, 504])
RetryTotal == 3
status_forcelist == {429, 500, 502, 503, 504}

(***************************************************************************)
(* What the server may answer to one HTTP attempt: a status, whether the   *)
(* body parses as JSON, and the parsed body.                               *)
(***************************************************************************)
Resp(status, json, body) == [status |-> status, json |-> json, body |-> body]
Ok(body) == Resp(200, TRUE, body)

ErrorOutcomes == {Resp(401, FALSE, None), Resp(404, FALSE, None), Resp(503, FALSE, None)}
\* a 200 response whose body is empty or not JSON: resp.json() raises
NotJson == Resp(200, FALSE, None)

\* two rows a page may carry
Row1 == <<"id">> :> "1"
Row2 == <<"id">> :> "2"
\* {"items": [{"id": 1}]}
Items == <<"items", "#1", "id">> :> "1"

CursorBody(tok) == (<<"cursor">> :> tok) @@ Items
LinkBody(tok) == (<<"links", "next">> :> tok) @@ Items

PageOutcomes ==
    {Ok(ListOf(<<Row1>>)), Ok(ListOf(<<Row2>>)), Ok(Leaf("[]")), Ok(Leaf("{}")), NotJson}
CursorOutcomes ==
    {Ok(CursorBody("c1")), Ok(CursorBody("c2")), Ok(CursorBody("")),
     Ok(CursorBody("null")), Ok(Items), Ok(ListOf(<<Row1>>)), NotJson}
NextLinkOutcomes ==
    {Ok(LinkBody("u1")), Ok(LinkBody("u2")), Ok(LinkBody("")), Ok(LinkBody("null")),
     Ok((<<"links">> :> "{}") @@ Items),
     Ok(Items),
     Ok((<<"links">> :> "x") @@ Items),
     NotJson}
SingleOutcomes == {Ok(ListOf(<<Row1>>)), Ok(Leaf("[]")), Ok(Items), NotJson}

Outcomes(ptype) ==
    ErrorOutcomes \cup
    (CASE ptype = "page" -> PageOutcomes
       [] ptype = "cursor" -> CursorOutcomes
       [] ptype = "next_link" -> NextLinkOutcomes
       [] OTHER -> SingleOutcomes)

\* config.get('rate_limit', {}): the configurations of the model
RateLimits == {<<>>, <<0>>, <<30>>}

VARIABLES
    pagination,     \* config: pagination['type'], "none" when there is no pagination
    start_page,     \* config: pagination['start_page']
    rate_limit,     \* config: <<n>> for rate_limit.requests_per_minute: n, <<>> without it
    files,          \* the raw page store of the (api, date) partition: file name -> body
    pc,             \* where extract_api is: "idle", "loop", "returned", "raised"
    page_num, cursor, has_more, response_idx, url, saved_files,
    retries_used,   \* retries the session has spent on the current session.get
    log,            \* the HTTP attempts of the current invocation, in order
    sleeps,         \* the time.sleep calls of the current invocation, in order
    ret,            \* the list extract_api returned
    fetchNo         \* invocations started so far

fetchVars == <<pagination, start_page, rate_limit, files, pc, page_num, cursor, has_more,
               response_idx, url, saved_files, retries_used, log, sleeps, ret, fetchNo>>

InitFetch ==
    /\ pagination \in PaginationTypes
    /\ start_page \in (IF pagination = "page" THEN StartPages ELSE {1})
    /\ rate_limit \in RateLimits
    /\ files = <<>>
    /\ pc = "idle"
    /\ page_num = start_page
    /\ cursor = None
    /\ has_more = TRUE
    /\ response_idx = 1
    /\ url = BaseUrl
    /\ saved_files = <<>>
    /\ retries_used = 0
    /\ log = <<>>
    /\ sleeps = <<>>
    /\ ret = <<>>
    /\ fetchNo = 0

\* line 35: rate_limit.get('requests_per_minute', 60)
requests_per_minute == IF rate_limit = <<>> THEN 60 ELSE rate_limit[1]

\* line 36: 60.0 / requests_per_minute if requests_per_minute else 0, in
\* milliseconds
sleep_time == IF requests_per_minute # 0 THEN 60000 \div requests_per_minute ELSE 0

\* a slip: the sleep does not look at has_more
SleepRegardless(more) ==
    sleeps' = IF sleep_time > 0
              THEN Append(sleeps, [after |-> Len(log) + 1, ms |-> sleep_time])
              ELSE sleeps

\* lines 136-137, at the end of an iteration that did not break: the sleep
\* is recorded with the number of HTTP attempts made before it
Sleep(more) ==
    sleeps' = IF more /\ sleep_time > 0
              THEN Append(sleeps, [after |-> Len(log) + 1, ms |-> sleep_time])
              ELSE sleeps

\* lines 73-78: the state of a fresh invocation; the page store is kept
StartFetch ==
    /\ pc \in {"idle", "returned", "raised"}
    /\ fetchNo < MaxFetches
    /\ fetchNo' = fetchNo + 1
    /\ pc' = "loop"
    /\ saved_files' = <<>>
    /\ page_num' = start_page
    /\ cursor' = None
    /\ has_more' = TRUE
    /\ response_idx' = 1
    /\ url' = BaseUrl
    /\ retries_used' = 0
    /\ log' = <<>>
    /\ sleeps' = <<>>
    /\ ret' = <<>>
    /\ UNCHANGED <<pagination, start_page, rate_limit, files>>

\* lines 80-86: the request of the current iteration
Request ==
    [url |-> url,
     page |-> IF pagination = "page" THEN <<page_num>> ELSE <<>>,
     cursor |-> IF pagination = "cursor" /\ Truthy(cursor) THEN <<cursor>> ELSE <<>>]

\* one HTTP attempt with its outcome, and the pages saved once it is handled
Logged(o, nsaved) ==
    Append(log, [req |-> Request, status |-> o.status, json |-> o.json,
                 body |-> o.body, saved |-> nsaved])

\* the decimal digits of a natural number
RECURSIVE Digits(_)
Digits(n) == IF n < 10 THEN <<n>> ELSE Append(Digits(n \div 10), n % 10)

\* f"response_{response_idx:03d}.json" within out_dir: the file is named by the
\* digits of the sequence number, zero-padded to three
OutPath(idx) ==
    LET ds == Digits(idx)
    IN  [i \in 1..(3 - Len(ds)) |-> 0] \o ds

\* a slip: the file is written under the next sequence number
WriteFileOffByOne(store, idx, data) ==
    [i \in DOMAIN store \cup {OutPath(idx + 1)} |->
        IF i = OutPath(idx + 1) THEN data ELSE store[i]]

\* open(out_path, 'w'); json.dump(data, f)
WriteFile(store, idx, data) ==
    [i \in DOMAIN store \cup {OutPath(idx)} |-> IF i = OutPath(idx) THEN data ELSE store[i]]

\* break out of the loop, or leave it because has_more is false: return saved_files
Return(saved) ==
    /\ pc' = "returned"
    /\ ret' = saved

Continue ==
    /\ pc' = "loop"
    /\ ret' = ret

\* the session retries a status of the forcelist while retries remain
RetryAttempt(o) ==
    /\ o.status \in status_forcelist
    /\ retries_used < RetryTotal
    /\ retries_used' = retries_used + 1
    /\ log' = Logged(o, Len(saved_files))
    /\ Continue
    /\ UNCHANGED <<pagination, start_page, rate_limit, files, page_num, cursor, has_more,
                   response_idx, url, saved_files, fetchNo, sleeps>>

\* lines 89-91: the retries are spent, session.get raises, the loop breaks
RetriesExhausted(o) ==
    /\ o.status \in status_forcelist
    /\ retries_used = RetryTotal
    /\ log' = Logged(o, Len(saved_files))
    /\ Return(saved_files)
    /\ UNCHANGED <<pagination, start_page, rate_limit, files, page_num, cursor, has_more,
                   response_idx, url, saved_files, retries_used, fetchNo, sleeps>>

\* a slip: the error status is logged but the loop goes on
HttpErrorContinues(o) ==
    /\ o.status \notin status_forcelist
    /\ o.status = 401 \/ o.status >= 400
    /\ log' = Logged(o, Len(saved_files))
    /\ Continue
    /\ UNCHANGED <<pagination, start_page, rate_limit, files, page_num, cursor, has_more,
                   response_idx, url, saved_files, retries_used, fetchNo, sleeps>>

\* lines 92-97: 401, or another status >= 400 that the session hands back
HttpError(o) ==
    /\ o.status \notin status_forcelist
    /\ o.status = 401 \/ o.status >= 400
    /\ log' = Logged(o, Len(saved_files))
    /\ Return(saved_files)
    /\ UNCHANGED <<pagination, start_page, rate_limit, files, page_num, cursor, has_more,
                   response_idx, url, saved_files, retries_used, fetchNo, sleeps>>

\* line 98: resp.json() raises on a body that is not JSON; nothing catches it
JsonError(o) ==
    /\ o.status < 400
    /\ ~o.json
    /\ log' = Logged(o, Len(saved_files))
    /\ pc' = "raised"
    /\ UNCHANGED <<pagination, start_page, rate_limit, files, page_num, cursor, has_more,
                   response_idx, url, saved_files, retries_used, ret, fetchNo, sleeps>>

\* lines 100-103: the page strategy's empty page ends the loop and is not saved
PageStop(o) ==
    /\ o.status < 400 /\ o.json
    /\ pagination = "page"
    /\ ~Truthy(o.body)
    /\ has_more' = FALSE
    /\ log' = Logged(o, Len(saved_files))
    /\ Return(saved_files)
    /\ UNCHANGED <<pagination, start_page, rate_limit, files, page_num, cursor,
                   response_idx, url, saved_files, retries_used, fetchNo, sleeps>>

\* a slip: the page is saved but the page number stays
PageSaveSamePage(o) ==
    /\ o.status < 400 /\ o.json
    /\ pagination = "page"
    /\ Truthy(o.body)
    /\ files' = WriteFile(files, response_idx, o.body)
    /\ saved_files' = Append(saved_files, OutPath(response_idx))
    /\ response_idx' = response_idx + 1
    /\ page_num' = page_num
    /\ retries_used' = 0
    /\ log' = Logged(o, Len(saved_files) + 1)
    /\ Sleep(has_more)
    /\ Continue
    /\ UNCHANGED <<pagination, start_page, rate_limit, cursor, has_more, url, fetchNo>>

\* lines 104-110: a non-empty page is saved and the page number advances
PageSave(o) ==
    /\ o.status < 400 /\ o.json
    /\ pagination = "page"
    /\ Truthy(o.body)
    /\ files' = WriteFile(files, response_idx, o.body)
    /\ saved_files' = Append(saved_files, OutPath(response_idx))
    /\ response_idx' = response_idx + 1
    /\ page_num' = page_num + 1
    /\ retries_used' = 0
    /\ log' = Logged(o, Len(saved_files) + 1)
    /\ Sleep(has_more)
    /\ Continue
    /\ UNCHANGED <<pagination, start_page, rate_limit, cursor, has_more, url, fetchNo>>

\* a slip: the loop goes on whenever the cursor key is present, falsy or not
CursorSaveWhilePresent(o) ==
    /\ o.status < 400 /\ o.json
    /\ pagination = "cursor"
    /\ files' = WriteFile(files, response_idx, o.body)
    /\ saved_files' = Append(saved_files, OutPath(response_idx))
    /\ response_idx' = response_idx + 1
    /\ retries_used' = 0
    /\ log' = Logged(o, Len(saved_files) + 1)
    /\ IF IsDict(o.body)
       THEN /\ cursor' = Get(o.body, cursor_key)
            /\ has_more' = (<<cursor_key>> \in DOMAIN o.body)
            /\ Sleep(has_more')
            /\ IF has_more' THEN Continue ELSE Return(saved_files')
       ELSE /\ pc' = "raised"
            /\ UNCHANGED <<cursor, has_more, ret, sleeps>>
    /\ UNCHANGED <<pagination, start_page, rate_limit, page_num, url, fetchNo>>

\* lines 113-121: the cursor strategy saves every page, then reads the token
CursorSave(o) ==
    /\ o.status < 400 /\ o.json
    /\ pagination = "cursor"
    /\ files' = WriteFile(files, response_idx, o.body)
    /\ saved_files' = Append(saved_files, OutPath(response_idx))
    /\ response_idx' = response_idx + 1
    /\ retries_used' = 0
    /\ log' = Logged(o, Len(saved_files) + 1)
    /\ IF IsDict(o.body)
       THEN /\ cursor' = Get(o.body, cursor_key)
            /\ has_more' = Truthy(cursor')
            /\ Sleep(has_more')
            /\ IF has_more' THEN Continue ELSE Return(saved_files')
       ELSE \* data.get raises AttributeError on a body that is no object
            /\ pc' = "raised"
            /\ UNCHANGED <<cursor, has_more, ret, sleeps>>
    /\ UNCHANGED <<pagination, start_page, rate_limit, page_num, url, fetchNo>>

\* lines 123-127: walk the key path; stop at the first None
\* [raised |-> TRUE] when a value on the way has no .get
RECURSIVE WalkLink(_, _)
WalkLink(d, path) ==
    IF path = <<>> THEN [raised |-> FALSE, val |-> d]
    ELSE IF ~IsDict(d) THEN [raised |-> TRUE, val |-> None]
    ELSE LET n == Get(d, Head(path))
         IN  IF n = None THEN [raised |-> FALSE, val |-> None]
             ELSE WalkLink(n, Tail(path))

\* a slip: the link is dropped and the first URL is requested again
LinkUrlIgnored(d) == BaseUrl

\* the URL a truthy extracted link names
LinkUrl(d) == d[<<>>]

\* lines 113-117, 122-131: the next_link strategy saves every page, then walks
NextLinkSave(o) ==
    /\ o.status < 400 /\ o.json
    /\ pagination = "next_link"
    /\ files' = WriteFile(files, response_idx, o.body)
    /\ saved_files' = Append(saved_files, OutPath(response_idx))
    /\ response_idx' = response_idx + 1
    /\ retries_used' = 0
    /\ log' = Logged(o, Len(saved_files) + 1)
    /\ LET w == WalkLink(o.body, next_link_key)
       IN  IF w.raised
           THEN /\ pc' = "raised"
                /\ UNCHANGED <<url, has_more, ret, sleeps>>
           ELSE IF Truthy(w.val)
           THEN /\ url' = LinkUrl(w.val)
                /\ has_more' = has_more
                /\ Sleep(has_more')
                /\ Continue
           ELSE /\ has_more' = FALSE
                /\ url' = url
                /\ Sleep(has_more')
                /\ Return(saved_files')
    /\ UNCHANGED <<pagination, start_page, rate_limit, page_num, cursor, fetchNo>>

\* lines 113-117, 132-135: without pagination the one response is saved
SingleSave(o) ==
    /\ o.status < 400 /\ o.json
    /\ pagination = "none"
    /\ files' = WriteFile(files, response_idx, o.body)
    /\ saved_files' = Append(saved_files, OutPath(response_idx))
    /\ response_idx' = response_idx + 1
    /\ retries_used' = 0
    /\ has_more' = FALSE
    /\ log' = Logged(o, Len(saved_files) + 1)
    /\ Sleep(has_more')
    /\ Return(saved_files')
    /\ UNCHANGED <<pagination, start_page, rate_limit, page_num, cursor, url, fetchNo>>

\* lines 79-137: one HTTP attempt of the loop and everything the loop does with it
Attempt(o) ==
    \/ RetryAttempt(o)
    \/ RetriesExhausted(o)
    \/ HttpError(o)
    \/ JsonError(o)
    \/ PageStop(o)
    \/ PageSave(o)
    \/ CursorSave(o)
    \/ NextLinkSave(o)
    \/ SingleSave(o)

FetchStep ==
    /\ pc = "loop"
    /\ Len(log) < MaxRequests
    /\ \E o \in Outcomes(pagination) : Attempt(o)

(***************************************************************************)
(* transform_data.                                                          *)
(***************************************************************************)
\* rows the page set of one transform may hold in the model
MaxRows == 3
\* transform_data invocations over one page set
MaxRuns == 2
\* the latest instant datetime.now() may return
MaxClock == 1

\* config['name'], stamped into the source column
api_name == "test_api"

\* one entry of config['mappings']; scale and offset are <<>> when not given
Mapping(source, target, type, scale, offset) ==
    [source |-> source, target |-> target, type |-> type, scale |-> scale, offset |-> offset]

\* a missing value (pd.NA, NaN, NaT) of a converted column; a value v is <<v>>
NA == <<>>

\* lexicographic order of two file names response_<digits>.json: the digits
\* are compared in turn and the '.' that follows them sorts before any digit
RECURSIVE NameLess(_, _)
NameLess(a, b) ==
    IF a = <<>> THEN b # <<>>
    ELSE IF b = <<>> THEN FALSE
    ELSE IF Head(a) = Head(b) THEN NameLess(Tail(a), Tail(b))
    ELSE Head(a) < Head(b)

\* sorted(glob.glob(os.path.join(raw_dir, '*.json')))
RECURSIVE SortedNames(_)
SortedNames(S) ==
    IF S = {} THEN <<>>
    ELSE LET m == CHOOSE x \in S : \A y \in S \ {x} : NameLess(x, y)
         IN  <<m>> \o SortedNames(S \ {m})

\* the elements of an array, in order
Elements(d) ==
    IF IsLeaf(d) THEN <<>>
    ELSE [i \in 1..Cardinality({Head(p) : p \in DOMAIN d}) |-> Get(d, ElemKeys[i])]

\* lines 15-18: an array page gives its elements, an object page one row,
\* any other page nothing
PageRows(d) ==
    IF IsList(d) THEN Elements(d)
    ELSE IF IsDict(d) THEN <<d>>
    ELSE <<>>

RECURSIVE ConcatPages(_, _)
ConcatPages(store, names) ==
    IF names = <<>> THEN <<>>
    ELSE PageRows(store[Head(names)]) \o ConcatPages(store, Tail(names))

\* _load_rows
LoadRows(store) == ConcatPages(store, SortedNames(DOMAIN store))

\* pd.json_normalize(rows, sep='.')[source]: the leaf at the dotted path,
\* missing (NaN) for a row without it
Column(rows, source) ==
    [i \in DOMAIN rows |-> IF source \in DOMAIN rows[i] THEN rows[i][source] ELSE "null"]

\* pd.to_numeric(errors='coerce'), in tenths: numbers and numeric strings
NumTenths == ("0" :> 0) @@ ("1" :> 10) @@ ("2" :> 20) @@ ("2.5" :> 25) @@ ("'3'" :> 30)
ToNumeric(tok) == IF tok \in DOMAIN NumTenths THEN <<NumTenths[tok]>> ELSE NA

\* pd.to_datetime(format=fmt, errors='coerce', utc=True).dt.tz_convert(None)
DateInstant == ("2024-06-10T12:00:00Z" :> "2024-06-10T12:00:00")
ToDatetime(tok) == IF tok \in DOMAIN DateInstant THEN <<DateInstant[tok]>> ELSE NA

\* str(x).strip().lower() of the string tokens whose case or padding changes
LowerStripped ==
    ("Yes" :> "yes") @@ (" NO " :> "no") @@ ("'1'" :> "1") @@ ("'true'" :> "true")
truthy == {"true", "1", "yes", "y", "t"}
falsy == {"false", "0", "no", "n", "f"}

\* lines 36-46: to_bool
to_bool(tok) ==
    IF tok = "true" THEN <<TRUE>>
    ELSE IF tok = "false" THEN <<FALSE>>
    ELSE IF tok = "null" THEN NA
    ELSE LET w == IF tok \in DOMAIN LowerStripped THEN LowerStripped[tok] ELSE tok
         IN  IF w \in truthy THEN <<TRUE>>
             ELSE IF w \in falsy THEN <<FALSE>>
             ELSE NA

\* lines 50-60: scale, then offset, on a numeric column held in tenths
Arith(cell, m) ==
    IF cell = NA THEN NA
    ELSE LET scaled == IF m.scale = <<>> THEN cell[1] ELSE cell[1] * m.scale[1]
         IN  <<IF m.offset = <<>> THEN scaled ELSE scaled + 10 * m.offset[1]>>

\* _convert_series: [raised |-> TRUE] when the conversion raises, else the
\* converted cells.  Int64 and Float64 columns are held in tenths once a scale
\* or an offset is applied; an Int64 column without them holds integers.
ConvertSeries(series, m) ==
    LET num == [i \in DOMAIN series |-> ToNumeric(series[i])]
        arith == m.scale # <<>> \/ m.offset # <<>>
    IN  CASE m.type = "datetime" ->
                [raised |-> FALSE, cells |-> [i \in DOMAIN series |-> ToDatetime(series[i])]]
          [] m.type = "int" ->
                \* astype('Int64') raises on a value that is no whole number
                IF \E i \in DOMAIN series : num[i] # NA /\ num[i][1] % 10 # 0
                THEN [raised |-> TRUE, cells |-> <<>>]
                ELSE [raised |-> FALSE,
                      cells |-> [i \in DOMAIN series |->
                                    IF arith THEN Arith(num[i], m)
                                    ELSE IF num[i] = NA THEN NA ELSE <<num[i][1] \div 10>>]]
          [] m.type = "float" ->
                [raised |-> FALSE, cells |-> [i \in DOMAIN series |-> Arith(num[i], m)]]
          [] m.type = "bool" ->
                [raised |-> FALSE,
                 cells |-> [i \in DOMAIN series |->
                               IF ~arith THEN to_bool(series[i])
                               ELSE IF to_bool(series[i]) = NA THEN NA
                               ELSE Arith(<<IF to_bool(series[i])[1] THEN 10 ELSE 0>>, m)]]
          [] OTHER ->
                \* astype('string'); arithmetic on a string column raises and
                \* the whole column becomes NA
                [raised |-> FALSE,
                 cells |-> [i \in DOMAIN series |->
                               IF arith \/ series[i] = "null" THEN NA ELSE <<series[i]>>]]

\* a slip: the two metadata values are assigned to each other's column
AddMetadataSwapped(vals, now) ==
    vals @@ ("ingestion_timestamp" :> api_name) @@ ("source" :> now)

\* lines 121-123: the two metadata columns
AddMetadata(vals, now) ==
    vals @@ ("ingestion_timestamp" :> now) @@ ("source" :> api_name)

\* a slip: the metadata columns are put before the mapped targets
OutColsMetadataFirst(maps) ==
    <<"ingestion_timestamp", "source">> \o [j \in DOMAIN maps |-> maps[j].target]

\* lines 90, 95, 126: the columns of the output, in order
OutCols(maps) ==
    [j \in DOMAIN maps |-> maps[j].target] \o <<"ingestion_timestamp", "source">>

\* str(dtype) of the columns of a row set, letter by letter
Int64Name == <<"I", "n", "t", "6", "4">>
Float64Name == <<"F", "l", "o", "a", "t", "6", "4">>
BooleanName == <<"b", "o", "o", "l", "e", "a", "n">>
StringName == <<"s", "t", "r", "i", "n", "g">>
DatetimeName == <<"d", "a", "t", "e", "t", "i", "m", "e", "6", "4", "[", "n", "s", "]">>
ObjectName == <<"o", "b", "j", "e", "c", "t">>

\* lines 24-61: the dtype of the column _convert_series returns.  A scale or an
\* offset of the model is a whole number, which keeps an Int64 column Int64
\* and makes a boolean column Int64.
SeriesDtype(m) ==
    CASE m.type = "datetime" -> DatetimeName
      [] m.type = "int" -> Int64Name
      [] m.type = "float" -> Float64Name
      [] m.type = "bool" -> IF m.scale # <<>> \/ m.offset # <<>> THEN Int64Name ELSE BooleanName
      [] OTHER -> StringName

\* lines 110, 122-123: clean_df.dtypes; ingestion_timestamp holds a datetime,
\* source a Python string
OutDtypes(maps) ==
    [c \in {maps[j].target : j \in DOMAIN maps} \cup {"ingestion_timestamp", "source"} |->
        IF c = "source" THEN ObjectName
        ELSE IF c = "ingestion_timestamp" THEN DatetimeName
        ELSE SeriesDtype(maps[CHOOSE j \in DOMAIN maps :
                                 maps[j].target = c
                                 /\ \A k \in DOMAIN maps : maps[k].target = c => k <= j])]

\* lines 89-128 on the loaded rows: the status ("ok" or "raised"), the output
\* columns and rows, and the rows written to transform_invalid_rows.json
TransformRows(rows, maps, now) ==
    IF rows = <<>>
    THEN [status |-> "ok", cols |-> OutCols(maps), rows |-> <<>>, invalid |-> <<>>]
    ELSE LET conv == [j \in DOMAIN maps |-> ConvertSeries(Column(rows, maps[j].source), maps[j])]
             invalid_mask == [i \in DOMAIN rows |-> \E j \in DOMAIN maps : conv[j].cells[i] = NA]
             idx == [i \in DOMAIN rows |-> i]
             \* out_df[target] = converted: a later mapping of a target replaces an earlier one
             col(t) == CHOOSE j \in DOMAIN maps :
                          maps[j].target = t /\ \A k \in DOMAIN maps : maps[k].target = t => k <= j
             vals(i) == [t \in {maps[j].target : j \in DOMAIN maps} |-> conv[col(t)].cells[i][1]]
             keep == SelectSeq(idx, LAMBDA i : ~invalid_mask[i])
             drop == SelectSeq(idx, LAMBDA i : invalid_mask[i])
         IN  IF \E j \in DOMAIN maps : conv[j].raised
             THEN [status |-> "raised", cols |-> <<>>, rows |-> <<>>, invalid |-> <<>>]
             ELSE [status |-> "ok",
                   cols |-> OutCols(maps),
                   rows |-> [n \in DOMAIN keep |-> AddMetadata(vals(keep[n]), now)],
                   invalid |-> [n \in DOMAIN drop |-> rows[drop[n]]]]

\* transform_data over the raw page store
TransformData(store, maps, now) == TransformRows(LoadRows(store), maps, now)

\* the configurations and the rows the model runs transform_data on
IntCase ==
    [mappings |-> <<Mapping(<<"repo", "id">>, "repo_id", "int", <<>>, <<>>),
                    Mapping(<<"type">>, "event_type", "string", <<>>, <<>>)>>,
     rows |-> {(<<"repo", "id">> :> "1") @@ (<<"type">> :> "PushEvent"),
               (<<"repo", "id">> :> "'3'") @@ (<<"type">> :> "PullEvent"),
               (<<"repo", "id">> :> "2.5") @@ (<<"type">> :> "PushEvent"),
               (<<"repo", "id">> :> "not_int") @@ (<<"type">> :> "PushEvent"),
               (<<"repo", "id">> :> "2")}]
FloatCase ==
    [mappings |-> <<Mapping(<<"amount">>, "amount", "float", <<2>>, <<1>>)>>,
     rows |-> {<<"amount">> :> "1", <<"amount">> :> "2.5", <<"amount">> :> "n/a", Leaf("{}")}]
BoolCase ==
    [mappings |-> <<Mapping(<<"flag">>, "flag", "bool", <<>>, <<>>)>>,
     rows |-> {<<"flag">> :> "true", <<"flag">> :> " NO ", <<"flag">> :> "maybe",
               <<"flag">> :> "null"}]
DatetimeCase ==
    [mappings |-> <<Mapping(<<"type">>, "event_type", "string", <<>>, <<>>),
                    Mapping(<<"created_at">>, "event_time", "datetime", <<>>, <<>>)>>,
     rows |-> {(<<"type">> :> "PushEvent") @@ (<<"created_at">> :> "2024-06-10T12:00:00Z"),
               (<<"type">> :> "PushEvent") @@ (<<"created_at">> :> "yesterday"),
               (<<"type">> :> "null") @@ (<<"created_at">> :> "2024-06-10T12:00:00Z")}]
ScaledStringCase ==
    [mappings |-> <<Mapping(<<"type">>, "label", "string", <<2>>, <<>>)>>,
     rows |-> {<<"type">> :> "PushEvent", <<"type">> :> "PullEvent"}]
TransformCases == {IntCase, FloatCase, BoolCase, DatetimeCase, ScaledStringCase}

\* the pages a fetch may have stored: arrays of rows, single rows, a scalar
SeqsUpTo(U, n) == UNION {[1..k -> U] : k \in 0..n}
PagesOver(U) == {ListOf(s) : s \in SeqsUpTo(U, MaxRows)} \cup U \cup {Leaf("2")}
\* the stores of at most two pages that hold at most MaxRows rows
PageStores(U) ==
    {<<>>}
    \cup {OutPath(1) :> p : p \in PagesOver(U)}
    \cup {(OutPath(1) :> p[1]) @@ (OutPath(2) :> p[2]) :
            p \in {q \in PagesOver(U) \X PagesOver(U) :
                     Len(PageRows(q[1])) + Len(PageRows(q[2])) <= MaxRows}}

NoOutput == [status |-> "none", cols |-> <<>>, rows |-> <<>>]

VARIABLES
    mappings,       \* config['mappings']
    clock,          \* the latest instant datetime.now() returned
    tf_out,         \* what the latest transform_data returned, or that it raised
    tf_prev,        \* the same for the invocation before it
    tf_runs,        \* transform_data invocations so far
    invalid_file    \* the content of transform_invalid_rows.json, <<>> when absent

xformVars == <<mappings, clock, tf_out, tf_prev, tf_runs, invalid_file>>

XformIdle ==
    /\ clock = 0
    /\ tf_out = NoOutput
    /\ tf_prev = NoOutput
    /\ tf_runs = 0
    /\ invalid_file = <<>>

\* lines 64-128: one invocation of transform_data at wall-clock instant now
Transform(now) ==
    /\ tf_runs < MaxRuns
    /\ LET r == TransformData(files, mappings, now)
       IN  /\ tf_out' = [status |-> r.status, cols |-> r.cols, rows |-> r.rows]
           /\ invalid_file' = IF r.invalid # <<>> THEN r.invalid ELSE invalid_file
    /\ tf_prev' = tf_out
    /\ tf_runs' = tf_runs + 1
    /\ clock' = now
    /\ UNCHANGED mappings

TransformStep == \E now \in clock..MaxClock : Transform(now)

(***************************************************************************)
(* validate_schema.  It reads the same raw pages as transform_data.  What  *)
(* pandera's schema.validate(df, lazy=True) reports is held as a list of   *)
(* failure cases: one without a row index for a required column that the   *)
(* data lacks and for the dtype check of a column that could not be        *)
(* coerced, one with the row's index for every value that fails coercion   *)
(* and for every null in a column that is not nullable.                    *)
(***************************************************************************)
\* rows of the raw page set that pass every check
MaxGood == 20
\* further rows of the raw page set, drawn from the rows with a flaw
MaxTail == 2

\* the rows of one page file of the model
PageSize == Len(ElemKeys)

\* lines 80-88: the rows validate_schema reads: the files in sorted order, the
\* elements of an array page, an object page as one row, nothing of any
\* other page
RECURSIVE ExtendRows(_, _)
ExtendRows(store, names) ==
    IF names = <<>> THEN <<>>
    ELSE LET data == store[Head(names)]
         IN  (IF IsList(data) THEN Elements(data)
              ELSE IF IsDict(data) THEN <<data>>
              ELSE <<>>) \o ExtendRows(store, Tail(names))
AllRows(store) == ExtendRows(store, SortedNames(DOMAIN store))

\* one error of a report: a failure case of pandera, or a message held as the
\* literal part of its f-string followed by the values formatted into it
FailureCase(column, check, index) ==
    [kind |-> "case", column |-> column, check |-> check, index |-> index, text |-> <<>>]
Message(text) == [kind |-> "text", column |-> "", check |-> "", index |-> <<>>, text |-> text]

\* line 90
NoDataFound == Message(<<"No data found.">>)
\* line 136
DuplicateMessage(keys) == Message(<<"Duplicate values found in unique_keys: ">> \o keys)
\* line 140
NullMessage(field) == Message(<<"Null values found in non_null_field: ", field>>)

\* lines 59, 100-103, 133, 138: config.get('schema')
Schema(required, dtypes, unique, non_null) ==
    [required_columns |-> required, dtypes |-> dtypes, unique_keys |-> unique,
     non_null_fields |-> non_null]
NoSchema == Schema(<<>>, <<>>, <<>>, <<>>)
StrictSchema ==
    Schema(<<"id", "type">>, ("id" :> "int") @@ ("type" :> "string"), <<"id">>, <<"type">>)
LooseSchema ==
    Schema(<<"id", "type">>, ("id" :> "int") @@ ("type" :> "string"), <<>>, <<>>)
Schemas == {NoSchema, StrictSchema, LooseSchema}

\* pd.DataFrame(all_rows): the columns are the keys of the rows, a row that
\* lacks a key holds a null there
FrameColumns(rows) == UNION {{p[1] : p \in DOMAIN rows[i] \ {<<>>}} : i \in DOMAIN rows}
Cell(row, col) == IF <<col>> \in DOMAIN row THEN row[<<col>>] ELSE "null"
IsNull(tok) == tok = "null"

\* the JSON numbers that are whole
IntTokens == {ToString(i) : i \in 0..(MaxGood + 1)}

\* coerce=True: whether a value can be coerced to the declared type; any value
\* can be made a string
Coercible(tok, dtype) == IF dtype = "int" THEN tok \in IntTokens ELSE TRUE

\* the failure cases of one required column, in row order
ColumnCases(rows, schema, col) ==
    IF col \notin FrameColumns(rows)
    THEN <<FailureCase(col, "column_in_dataframe", <<>>)>>
    ELSE LET idx == [i \in DOMAIN rows |-> i]
             dtype == schema.dtypes[col]
             uncoerced == SelectSeq(idx, LAMBDA i :
                              ~IsNull(Cell(rows[i], col)) /\ ~Coercible(Cell(rows[i], col), dtype))
             nulls == SelectSeq(idx, LAMBDA i :
                          /\ \E k \in DOMAIN schema.non_null_fields : schema.non_null_fields[k] = col
                          /\ IsNull(Cell(rows[i], col)))
         IN  [k \in DOMAIN uncoerced |-> FailureCase(col, "coerce_dtype", <<uncoerced[k]>>)]
             \o (IF uncoerced = <<>> THEN <<>> ELSE <<FailureCase(col, "dtype", <<>>)>>)
             \o [k \in DOMAIN nulls |-> FailureCase(col, "not_nullable", <<nulls[k]>>)]

\* lines 104-110: e.failure_cases of schema.validate(df, lazy=True), empty
\* when the validation passes
RECURSIVE FailureCases(_, _, _)
FailureCases(rows, schema, cols) ==
    IF cols = <<>> THEN <<>>
    ELSE ColumnCases(rows, schema, Head(cols)) \o FailureCases(rows, schema, Tail(cols))

\* lines 112-117: the integer row indices of the failure cases
InvalidIdxSet(cases) == {cases[k].index[1] : k \in {j \in DOMAIN cases : cases[j].index # <<>>}}

\* df.duplicated(subset=unique_keys).any()
HasDuplicates(rows, keys) ==
    \E i, j \in DOMAIN rows :
        i < j /\ \A k \in DOMAIN keys : Cell(rows[i], keys[k]) = Cell(rows[j], keys[k])

\* a report, with what the call wrote: the rows of invalid_rows.json and the
\* inferred schema, <<>> when the file is not written
Report(valid, invalid, errors, gated, invalid_file_rows, inferred) ==
    [status |-> "returned", valid_rows |-> valid, invalid_rows |-> invalid, errors |-> errors,
     gated |-> gated, invalid_written |-> invalid_file_rows, inferred |-> inferred]
Raised(invalid_file_rows) ==
    [status |-> "raised", valid_rows |-> 0, invalid_rows |-> 0, errors |-> <<>>,
     gated |-> FALSE, invalid_written |-> invalid_file_rows, inferred |-> <<>>]

\* lines 22-43: infer_schema over the first 100 rows
InferSchema(rows) ==
    LET cols == FrameColumns(rows)
    IN  <<[required_columns |-> cols,
           dtypes |-> [c \in cols |->
                          IF \A i \in DOMAIN rows : Cell(rows[i], c) \in IntTokens
                          THEN "int" ELSE "string"]]>>

\* line 130: len(df) > 0 and invalid_rows / len(df) > 0.05
OverThreshold(invalid, total) == total > 0 /\ 20 * invalid > total

\* a slip: every failure case with a row index counts, not every row once
CountInvalidPerCase(cases, total) ==
    IF InvalidIdxSet(cases) # {}
    THEN Len(SelectSeq(cases, LAMBDA c : c.index # <<>>))
    ELSE total

\* lines 116-126: the number of invalid rows of a validation that failed
CountInvalid(cases, total) ==
    IF InvalidIdxSet(cases) # {} THEN Cardinality(InvalidIdxSet(cases)) ELSE total

\* a slip: an empty page set is reported without the marker
NoDataReportSilent == Report(0, 0, <<>>, FALSE, <<>>, <<>>)

\* line 90
NoDataReport == Report(0, 0, <<NoDataFound>>, FALSE, <<>>, <<>>)

\* lines 80-150: validate_schema over the rows of the raw pages
ValidateRows(rows, schema) ==
    IF rows = <<>> THEN NoDataReport
    ELSE IF schema = NoSchema
    THEN Report(Len(rows), 0, <<>>, FALSE, <<>>, InferSchema(rows))
    ELSE LET cases == FailureCases(rows, schema, schema.required_columns)
             total == Len(rows)
             bad == InvalidIdxSet(cases)
             invalid == IF cases = <<>> THEN 0 ELSE CountInvalid(cases, total)
             valid == IF cases = <<>> THEN total ELSE total - invalid
             idx == [i \in DOMAIN rows |-> i]
             written == IF cases = <<>> THEN <<>>
                        ELSE IF bad # {} THEN SelectSeq(idx, LAMBDA i : i \in bad)
                        ELSE idx
             cols == FrameColumns(rows)
             keyed == \A k \in DOMAIN schema.unique_keys : schema.unique_keys[k] \in cols
             fields == schema.non_null_fields
             dup == IF schema.unique_keys # <<>> /\ HasDuplicates(rows, schema.unique_keys)
                    THEN <<DuplicateMessage(schema.unique_keys)>> ELSE <<>>
             nulls == SelectSeq(fields, LAMBDA f : \E i \in DOMAIN rows : IsNull(Cell(rows[i], f)))
         IN  IF cases # <<>> /\ OverThreshold(invalid, total)
             THEN Report(valid, invalid, cases, TRUE, written, <<>>)
             ELSE IF ~keyed \/ \E k \in DOMAIN fields : fields[k] \notin cols
             THEN \* df.duplicated(subset=...) or df[field] raises KeyError
                  Raised(written)
             ELSE Report(valid, invalid,
                         cases \o dup \o [k \in DOMAIN nulls |-> NullMessage(nulls[k])],
                         FALSE, written, <<>>)

\* the rows of the raw page sets the model validates
GoodRow(i, cols) ==
    IF "type" \in cols THEN (<<"id">> :> ToString(i)) @@ (<<"type">> :> "PushEvent")
    ELSE (<<"id">> :> ToString(i))
FlawedRows(cols) ==
    IF "type" \in cols
    THEN {(<<"id">> :> "not_an_int") @@ (<<"type">> :> "PushEvent"),
          (<<"id">> :> ToString(MaxGood + 1)) @@ (<<"type">> :> "null"),
          (<<"id">> :> "not_an_int") @@ (<<"type">> :> "null"),
          (<<"id">> :> "1") @@ (<<"type">> :> "PushEvent")}
    ELSE {(<<"id">> :> "not_an_int"), (<<"id">> :> "1")}
DataShapes == {{"id", "type"}, {"id"}}
RowSets ==
    UNION {{[i \in 1..n |-> GoodRow(i, cols)] \o tail :
              n \in 0..MaxGood, tail \in SeqsUpTo(FlawedRows(cols), MaxTail)} :
           cols \in DataShapes}

\* the page files a fetch leaves for a row set: arrays of at most PageSize
\* rows, numbered from 1; for no row, no file or one file holding []
RECURSIVE PagesOf(_, _)
PagesOf(rows, idx) ==
    IF rows = <<>> THEN <<>>
    ELSE LET k == IF Len(rows) < PageSize THEN Len(rows) ELSE PageSize
         IN  (OutPath(idx) :> ListOf(SubSeq(rows, 1, k)))
             @@ PagesOf(SubSeq(rows, k + 1, Len(rows)), idx + 1)
RawStores ==
    {PagesOf(rows, 1) : rows \in RowSets} \cup {OutPath(1) :> ListOf(<<>>)}

NoReport ==
    [status |-> "none", valid_rows |-> 0, invalid_rows |-> 0, errors |-> <<>>,
     gated |-> FALSE, invalid_written |-> <<>>, inferred |-> <<>>]

NoRun == [import |-> "unparsed", stages |-> <<>>]

VARIABLES
    schema_cfg,         \* config.get('schema'), NoSchema when the config has none
    report,             \* what the latest validate_schema returned, or that it raised
    invalid_rows_file,  \* the rows of invalid_rows.json, <<>> when absent
    inferred_file,      \* the inferred schema artifact, <<>> when absent
    dag_run             \* the latest run of api_etl_dag: what importing the DAG file
                        \* gave and the stages that ran, each with its outcome

validVars == <<schema_cfg, report, invalid_rows_file, inferred_file, dag_run>>

ValidIdle ==
    /\ schema_cfg = NoSchema
    /\ report = NoReport
    /\ invalid_rows_file = <<>>
    /\ inferred_file = <<>>
    /\ dag_run = NoRun

\* lines 54-150: one invocation of validate_schema
ValidateSchema ==
    LET r == ValidateRows(AllRows(files), schema_cfg)
    IN  /\ report' = r
        /\ invalid_rows_file' = IF r.invalid_written # <<>>
                                THEN [k \in DOMAIN r.invalid_written |->
                                         AllRows(files)[r.invalid_written[k]]]
                                ELSE invalid_rows_file
        /\ inferred_file' = IF r.inferred # <<>> THEN r.inferred ELSE inferred_file
        /\ UNCHANGED <<schema_cfg, dag_run>>

\* dags/api_etl_dag.py, line 82: the column of `def validate`
DefValidateIndent == 4
\* dags/api_etl_dag.py, lines 96-102: the column of the `if`, of `note = ...`
\* and of `return {...}` that follow the list of non-benign errors
ReturnIndent == 4

\* a statement belongs to the body of a def when it is indented deeper than it
InsideValidate == ReturnIndent > DefValidateIndent

\* compiling the DAG file: a return outside a function is a SyntaxError
CompileDag == IF InsideValidate THEN "loaded" ELSE "SyntaxError"

\* lines 91-95: the errors that are neither the no-data marker nor start with
\* the duplicate-unique-key prefix, compared stripped and in lower case
LowerText ==
    ("No data found." :> "no data found.")
    @@ ("Duplicate values found in unique_keys: " :> "duplicate values found in unique_keys: ")
NonBenign(errors) ==
    SelectSeq(errors, LAMBDA e :
        ~(/\ e.kind = "text"
          /\ Head(e.text) \in DOMAIN LowerText
          /\ \/ LowerText[Head(e.text)] = "no data found." /\ Len(e.text) = 1
             \/ LowerText[Head(e.text)] = "duplicate values found in unique_keys: "))

\* lines 96-99: the validate task raises AirflowException
ValidateTaskFails(r) ==
    r.status = "raised" \/ NonBenign(r.errors) # <<>> \/ r.invalid_rows > 0

\* line 123: extract() >> validate() >> transform() >> load()
TaskOrder == <<"extract", "validate", "transform", "load">>
Stage(name, outcome) == [name |-> name, outcome |-> outcome]

\* one scheduled run of api_etl_dag: the scheduler imports the DAG file and,
\* when that gives a DAG, runs its tasks in order up to the first that fails
RunDag ==
    LET r == ValidateRows(AllRows(files), schema_cfg)
    IN  IF CompileDag = "loaded"
        THEN /\ dag_run' =
                   [import |-> "loaded",
                    stages |-> IF ValidateTaskFails(r)
                               THEN <<Stage("extract", "success"), Stage("validate", "failed")>>
                               ELSE [k \in DOMAIN TaskOrder |-> Stage(TaskOrder[k], "success")]]
             /\ report' = r
             /\ UNCHANGED <<schema_cfg, invalid_rows_file, inferred_file>>
        ELSE /\ dag_run' = [import |-> CompileDag, stages |-> <<>>]
             /\ UNCHANGED <<schema_cfg, report, invalid_rows_file, inferred_file>>

(***************************************************************************)
(* load_to_postgres.  The typed row set is what transform_data hands to    *)
(* the loader: its columns in order and its rows.  The destination table   *)
(* holds a bag of rows over the columns it was created with.               *)
(***************************************************************************)
\* load_to_postgres invocations
MaxLoads == 2
\* rows of one typed row set
MaxBatch == 2

\* logical dates
Dates == {"2024-06-10", "2024-06-11"}

\* a typed row set, with the dtype of each column
TypedFrame(cols, rows, dtypes) == [cols |-> cols, rows |-> rows, dtypes |-> dtypes]
\* a row set of Python strings
Frame(cols, rows) ==
    TypedFrame(cols, rows, [c \in {cols[i] : i \in DOMAIN cols} |-> ObjectName])
ColSet(df) == {df.cols[i] : i \in DOMAIN df.cols}

NoTable == [exists |-> FALSE, cols |-> {}, types |-> <<>>, pk |-> {}, rows |-> EmptyBag]

\* sub in name
Contains(sub, name) ==
    \E i \in 1..(Len(name) - Len(sub) + 1) : SubSeq(name, i, i + Len(sub) - 1) = sub

\* lines 56-63: the SQL type of a column, from str(dtype)
SqlType(name) ==
    IF Contains(<<"i", "n", "t">>, name) THEN "INTEGER"
    ELSE IF Contains(<<"f", "l", "o", "a", "t">>, name) THEN "DOUBLE PRECISION"
    ELSE IF Contains(<<"d", "a", "t", "e", "t", "i", "m", "e">>, name) THEN "TIMESTAMP"
    ELSE "VARCHAR(500)"

\* the outcome of a statement or a transaction: the table it leaves, the rows
\* it reports as affected, and whether it raised
Done(t, n) == [ok |-> TRUE, table |-> t, affected |-> n]
Failed(t) == [ok |-> FALSE, table |-> t, affected |-> 0]

\* lines 51-80: CREATE TABLE IF NOT EXISTS with the columns of df and, when
\* unique keys are configured, PRIMARY KEY (unique_keys)
CreateAnalyticsTable(t, df, keys) ==
    IF t.exists THEN Done(t, 0)
    ELSE IF ~(keys \subseteq ColSet(df)) THEN Failed(t)
    ELSE Done([exists |-> TRUE, cols |-> ColSet(df),
               types |-> [c \in ColSet(df) |-> SqlType(df.dtypes[c])],
               pk |-> keys, rows |-> EmptyBag], 0)

\* lines 212-213: df['run_date'] = execution_date, for the delete+insert path
\* and only when the row set has no such column
AddRunDate(df, keys, date) ==
    IF keys = {} /\ "run_date" \notin ColSet(df)
    THEN TypedFrame(Append(df.cols, "run_date"),
                    [i \in DOMAIN df.rows |->
                        [c \in ColSet(df) \cup {"run_date"} |->
                            IF c = "run_date" THEN date ELSE df.rows[i][c]]],
                    df.dtypes @@ ("run_date" :> ObjectName))
    ELSE df

\* the table row an inserted record becomes: NULL in the columns it lacks
AsTableRow(t, rec) ==
    [c \in t.cols |-> IF c \in DOMAIN rec THEN rec[c] ELSE "NULL"]

SameKey(r, q, keys) == \A c \in keys : r[c] = q[c]

\* a slip: a plain INSERT, without the ON CONFLICT clause
InsertPlain(t, rec, keys) ==
    Done([t EXCEPT !.rows = @ (+) SetToBag({AsTableRow(t, rec)})], 1)

\* a slip: ON CONFLICT DO NOTHING whatever the columns
InsertIgnoreConflict(t, rec, keys) ==
    LET new == AsTableRow(t, rec)
    IN  IF \E r \in BagToSet(t.rows) : SameKey(r, new, keys)
        THEN Done(t, 0)
        ELSE Done([t EXCEPT !.rows = @ (+) SetToBag({new})], 1)

\* lines 96-107: INSERT ... ON CONFLICT (unique_keys) DO UPDATE SET every
\* non-key column, or DO NOTHING when every column is a key column
InsertOnConflict(t, rec, keys) ==
    LET new == AsTableRow(t, rec)
        hit == {r \in BagToSet(t.rows) : SameKey(r, new, keys)}
        update == DOMAIN rec \ keys
    IN  IF hit = {}
        THEN Done([t EXCEPT !.rows = @ (+) SetToBag({new})], 1)
        ELSE IF update = {}
        THEN Done(t, 0)
        ELSE LET old == CHOOSE r \in hit : TRUE
                 upd == [c \in t.cols |-> IF c \in update THEN new[c] ELSE old[c]]
             IN  Done([t EXCEPT !.rows = (@ (-) SetToBag({old})) (+) SetToBag({upd})], 1)

\* line 113: the statement is executed once per record, in order
RECURSIVE ExecuteMany(_, _, _, _)
ExecuteMany(t, recs, keys, n) ==
    IF recs = <<>> THEN Done(t, n)
    ELSE LET r == InsertOnConflict(t, Head(recs), keys)
         IN  ExecuteMany(r.table, Tail(recs), keys, n + r.affected)

\* line 129: DELETE FROM table WHERE run_date = :run_date
DeleteRunDate(t, date) ==
    [t EXCEPT !.rows = [r \in {x \in DOMAIN @ : x["run_date"] # date} |-> @[r]]]

\* line 132: df.to_sql(if_exists='append')
RECURSIVE InsertAll(_, _)
InsertAll(t, recs) ==
    IF recs = <<>> THEN t
    ELSE InsertAll([t EXCEPT !.rows = @ (+) SetToBag({AsTableRow(t, Head(recs))})], Tail(recs))

\* a slip: the statements are committed one by one as they are executed
RollbackKeepsWrites(before, during) == during

\* lines 115-117, and leaving `with engine.begin()` by an exception: the
\* transaction is rolled back, the table is what it was when it began
Rollback(before, during) == before

\* the table inside the transaction of _upsert_data once the first k records
\* are written: lines 113 and 129-132
PartialWrite(t, df, keys, date, k) ==
    IF keys # {} THEN ExecuteMany(t, SubSeq(df.rows, 1, k), keys, 0).table
    ELSE InsertAll(DeleteRunDate(t, date), SubSeq(df.rows, 1, k))

\* _upsert_data: one transaction, rolled back when a statement raises
UpsertData(t, df, keys, date) ==
    IF df.rows = <<>> THEN Done(t, 0)
    ELSE IF keys # {}
    THEN \* the statement names the columns of df and needs the unique index
         IF ~t.exists \/ ~(ColSet(df) \subseteq t.cols) \/ t.pk # keys
         THEN Failed(t)
         ELSE ExecuteMany(t, df.rows, keys, 0)
    ELSE IF ~t.exists \/ "run_date" \notin t.cols
         THEN Failed(t)
         ELSE IF ~(ColSet(df) \subseteq t.cols)
         THEN \* the DELETE is done, the INSERT raises
              Failed(Rollback(t, DeleteRunDate(t, date)))
         ELSE Done(InsertAll(DeleteRunDate(t, date), df.rows), Len(df.rows))

\* the configurations and the typed rows the model loads
Rec(id, type) == ("event_id" :> id) @@ ("event_type" :> type)
DatedRec(id, type, date) == Rec(id, type) @@ ("run_date" :> date)
PlainRows == {Rec("e1", "PushEvent"), Rec("e1", "PullEvent"), Rec("e2", "PushEvent")}
DatedRows ==
    {DatedRec("e1", "PushEvent", "2024-06-10"), DatedRec("e1", "PullEvent", "2024-06-10"),
     DatedRec("e1", "PushEvent", "2024-06-11")}
LoadCases ==
    {[unique_keys |-> {}, cols |-> <<"event_id", "event_type">>, rows |-> PlainRows],
     [unique_keys |-> {}, cols |-> <<"event_id", "event_type", "run_date">>, rows |-> DatedRows],
     [unique_keys |-> {"event_id"}, cols |-> <<"event_id", "event_type">>, rows |-> PlainRows],
     [unique_keys |-> {"event_id", "event_type"}, cols |-> <<"event_id", "event_type">>,
      rows |-> PlainRows]}

VARIABLES
    unique_keys,    \* config.get('unique_keys', [])
    df_cols,        \* the columns of the typed row sets of this configuration
    df_rows,        \* the rows they are drawn from
    table,          \* the destination table
    ledger,         \* the rows of pipeline_monitor, in insertion order
    last,           \* the latest load: its date, row set, outcome, the table size before
                    \* and after, whether it repeats the batch of the load before, the
                    \* step that was made to raise, the error raised to the caller, the
                    \* result returned, the ledger writes attempted, the table before
    keys_seen,      \* the key values of every row handed to a load
    loads           \* load_to_postgres invocations so far

loadVars == <<unique_keys, df_cols, df_rows, table, ledger, last, keys_seen, loads>>

NoLoad == [date |-> "", df |-> Frame(<<>>, <<>>), status |-> "none", rows_processed |-> 0,
           run_id |-> 0, count |-> 0, prev_count |-> 0, repeat |-> FALSE,
           fault |-> "none", raised |-> "", returned |-> <<>>, attempts |-> <<>>,
           before |-> NoTable]

LoadIdle ==
    /\ unique_keys = {}
    /\ df_cols = <<>>
    /\ df_rows = {}
    /\ table = NoTable
    /\ ledger = <<>>
    /\ last = NoLoad
    /\ keys_seen = {}
    /\ loads = 0

InitLoad ==
    /\ \E c \in LoadCases :
        /\ unique_keys = c.unique_keys
        /\ df_cols = c.cols
        /\ df_rows = c.rows
    /\ table = NoTable
    /\ ledger = <<>>
    /\ last = NoLoad
    /\ keys_seen = {}
    /\ loads = 0

\* the steps of load_to_postgres at which the database, or transform_data,
\* may raise: _create_pipeline_monitor_table, transform_data,
\* _create_analytics_table, _upsert_data, and the _log_pipeline_run of a success
EarlyFaults == {"monitor", "transform"}
LateFaults == {"create", "write", "log"}

\* a slip: the ledger keeps one entry per logical date
LogPipelineRunPerDate(entries, run_id, date, rows_processed, status, error) ==
    Append(SelectSeq(entries, LAMBDA e : e.run_date # date),
           [run_id |-> run_id, run_date |-> date, rows_processed |-> rows_processed,
            status |-> status, error |-> error])

\* a slip: a run that processed no row is logged as failed
LogPipelineRunZeroFailed(entries, run_id, date, rows_processed, status, error) ==
    Append(entries, [run_id |-> run_id, run_date |-> date, rows_processed |-> rows_processed,
                     status |-> IF rows_processed = 0 THEN "failed" ELSE status,
                     error |-> error])

\* _log_pipeline_run: one INSERT INTO pipeline_monitor
LogPipelineRun(entries, run_id, date, rows_processed, status, error) ==
    Append(entries, [run_id |-> run_id, run_date |-> date, rows_processed |-> rows_processed,
                     status |-> status, error |-> error])

KeyOf(rec) == [c \in unique_keys |-> rec[c]]

\* a slip: an error of the ledger write replaces the error being handled
ReraiseLatest(err, ledger_fault) == IF ledger_fault THEN "ledger_error" ELSE err

\* lines 238-244: the ledger write is wrapped in try/except: pass, and the bare
\* raise re-raises the error being handled
Reraise(err, ledger_fault) == err

\* lines 174-244: one invocation of load_to_postgres for logical date `date`,
\* transform_data returning the typed row set df.  fault names the step made
\* to raise ("none": only what the statements themselves raise); ledger_fault
\* makes the _log_pipeline_run of the except block raise.
RunLoad(date, df, fault, ledger_fault) ==
    LET run_id == loads + 1
        created == CreateAnalyticsTable(table, df, unique_keys)
        dated == AddRunDate(df, unique_keys, date)
        written == UpsertData(created.table, dated, unique_keys, date)
        attempt(status, n, error, done) ==
            [status |-> status, rows_processed |-> n, error |-> error, written |-> done]
        record(status, n, t, raised, returned, attempts) ==
            last' = [date |-> date, df |-> df, status |-> status, rows_processed |-> n,
                     run_id |-> run_id, count |-> BagCardinality(t.rows),
                     prev_count |-> last.count,
                     repeat |-> last.status = "success" /\ last.df = df,
                     fault |-> fault, raised |-> raised, returned |-> returned,
                     attempts |-> attempts, before |-> table]
        \* lines 221-230 and 200-206
        succeed(n, t) ==
            /\ table' = t
            /\ ledger' = LogPipelineRun(ledger, run_id, date, n, "success", "")
            /\ record("success", n, t, "", <<[status |-> "success", rows_processed |-> n]>>,
                      <<attempt("success", n, "", TRUE)>>)
        \* lines 232-244; before lists the ledger writes that raised already
        fail(err, t, before) ==
            /\ table' = t
            /\ ledger' = IF ledger_fault THEN ledger
                         ELSE LogPipelineRun(ledger, run_id, date, 0, "failed", err)
            /\ record("failed", 0, t, Reraise(err, ledger_fault), <<>>,
                      before \o <<attempt("failed", 0, err, ~ledger_fault)>>)
    IN  /\ loads < MaxLoads
        /\ loads' = loads + 1
        /\ keys_seen' = keys_seen \cup {KeyOf(df.rows[i]) : i \in DOMAIN df.rows}
        /\ IF fault = "monitor" THEN fail("monitor_error", table, <<>>)
           ELSE IF fault = "transform" THEN fail("transform_error", table, <<>>)
           ELSE IF df.rows = <<>>
           THEN \* lines 197-206: nothing to load is a success
                IF fault = "log"
                THEN fail("log_error", table, <<attempt("success", 0, "", FALSE)>>)
                ELSE succeed(0, table)
           ELSE IF fault = "create" \/ ~created.ok
           THEN fail("create_error", table, <<>>)
           ELSE IF ~written.ok
           THEN \* the transaction is rolled back; the created table stays
                fail("write_error", written.table, <<>>)
           ELSE IF fault = "write"
           THEN \* the database raises once k records are written, or at the
                \* commit: the transaction is rolled back
                \E k \in 0..Len(dated.rows) :
                    fail("write_error",
                         Rollback(created.table,
                                  PartialWrite(created.table, dated, unique_keys, date, k)),
                         <<>>)
           ELSE IF fault = "log"
           THEN fail("log_error", written.table,
                     <<attempt("success", written.affected, "", FALSE)>>)
           ELSE succeed(written.affected, written.table)
        /\ UNCHANGED <<unique_keys, df_cols, df_rows>>

\* load_to_postgres against a database that raises only what its statements raise
Load(date, df) == RunLoad(date, df, "none", FALSE)

\* a step before transform_data returns raises: there is no typed row set
LoadFaultEarly ==
    \E date \in Dates, fault \in EarlyFaults, ledger_fault \in BOOLEAN :
        RunLoad(date, Frame(df_cols, <<>>), fault, ledger_fault)

\* the typed row sets of the runs with database faults: none or one row
FaultBatches == {<<>>} \cup {<<r>> : r \in df_rows}

LoadFaultLate ==
    \E date \in Dates, rows \in FaultBatches, fault \in LateFaults \cup {"none"},
       ledger_fault \in BOOLEAN :
        RunLoad(date, Frame(df_cols, rows), fault, ledger_fault)

LoadStep ==
    \E date \in Dates, rows \in SeqsUpTo(df_rows, MaxBatch) : Load(date, Frame(df_cols, rows))

\* rows of the raw page of a load that transforms its own input
MaxPiped == 1

\* lines 174-244 with the transform_data of line 195 run over the raw pages:
\* the load receives what that run returned, or fails as it raised
LoadFromPages(date, now) ==
    /\ Transform(now)
    /\ IF tf_out'.status = "raised"
       THEN RunLoad(date, Frame(<<>>, <<>>), "transform", FALSE)
       ELSE RunLoad(date, TypedFrame(tf_out'.cols, tf_out'.rows, OutDtypes(mappings)),
                    "none", FALSE)

PipedStep == \E date \in Dates, now \in clock..MaxClock : LoadFromPages(date, now)

(***************************************************************************)
(* The specifications.                                                     *)
(***************************************************************************)
vars == <<fetchVars, xformVars, validVars, loadVars>>

FetchIdle ==
    /\ pagination = "none"
    /\ start_page = 1
    /\ rate_limit = <<>>
    /\ pc = "idle"
    /\ page_num = start_page
    /\ cursor = None
    /\ has_more = TRUE
    /\ response_idx = 1
    /\ url = BaseUrl
    /\ saved_files = <<>>
    /\ retries_used = 0
    /\ log = <<>>
    /\ sleeps = <<>>
    /\ ret = <<>>
    /\ fetchNo = 0

\* extract_api alone, from an empty partition
InitFetchSpec ==
    /\ InitFetch
    /\ ValidIdle
    /\ mappings = <<>>
    /\ XformIdle
    /\ LoadIdle

NextFetch ==
    \/ StartFetch /\ UNCHANGED <<xformVars, validVars, loadVars>>
    \/ FetchStep /\ UNCHANGED <<xformVars, validVars, loadVars>>

SpecFetch == InitFetchSpec /\ [][NextFetch]_vars

\* transform_data alone, over a page store that no fetch is changing
InitTransformSpec ==
    /\ FetchIdle
    /\ ValidIdle
    /\ XformIdle
    /\ LoadIdle
    /\ \E c \in TransformCases :
        /\ mappings = c.mappings
        /\ files \in PageStores(c.rows)

NextTransform == TransformStep /\ UNCHANGED <<fetchVars, validVars, loadVars>>

SpecTransform == InitTransformSpec /\ [][NextTransform]_vars

\* validate_schema and the DAG that calls it, over the raw pages of one
\* (api, date)
InitValidateSpec ==
    /\ FetchIdle
    /\ files \in RawStores
    /\ mappings = <<>>
    /\ XformIdle
    /\ schema_cfg \in Schemas
    /\ report = NoReport
    /\ invalid_rows_file = <<>>
    /\ inferred_file = <<>>
    /\ dag_run = NoRun
    /\ LoadIdle

NextValidate ==
    \/ ValidateSchema /\ UNCHANGED <<fetchVars, xformVars, loadVars>>
    \/ RunDag /\ UNCHANGED <<fetchVars, xformVars, loadVars>>

SpecValidate == InitValidateSpec /\ [][NextValidate]_vars

\* load_to_postgres alone, from an empty database, transform_data replaced by
\* the typed row set it returns
InitLoadSpec ==
    /\ FetchIdle
    /\ ValidIdle
    /\ files = <<>>
    /\ mappings = <<>>
    /\ XformIdle
    /\ InitLoad

NextLoad == LoadStep /\ UNCHANGED <<fetchVars, xformVars, validVars>>

SpecLoad == InitLoadSpec /\ [][NextLoad]_vars

\* load_to_postgres against a database, and a transform_data, that may raise
NextLoadFaults ==
    \/ LoadFaultEarly /\ UNCHANGED <<fetchVars, xformVars, validVars>>
    \/ LoadFaultLate /\ UNCHANGED <<fetchVars, xformVars, validVars>>

SpecLoadFaults == InitLoadSpec /\ [][NextLoadFaults]_vars

\* the configuration and the rows of the page sets that both validate_schema
\* and transform_data read
ReadCase ==
    [mappings |-> <<Mapping(<<"id">>, "id", "int", <<>>, <<>>),
                    Mapping(<<"type">>, "type", "string", <<>>, <<>>)>>,
     rows |-> {(<<"id">> :> "1") @@ (<<"type">> :> "PushEvent"),
               (<<"id">> :> "2.5") @@ (<<"type">> :> "PushEvent"),
               (<<"id">> :> "not_an_int") @@ (<<"type">> :> "PushEvent")}]

\* validate_schema and transform_data over the same raw pages
InitReadSpec ==
    /\ FetchIdle
    /\ files \in PageStores(ReadCase.rows)
    /\ mappings = ReadCase.mappings
    /\ XformIdle
    /\ schema_cfg \in {NoSchema, LooseSchema}
    /\ report = NoReport
    /\ invalid_rows_file = <<>>
    /\ inferred_file = <<>>
    /\ dag_run = NoRun
    /\ LoadIdle

NextRead ==
    \/ ValidateSchema /\ UNCHANGED <<fetchVars, xformVars, loadVars>>
    \/ TransformStep /\ UNCHANGED <<fetchVars, validVars, loadVars>>

SpecRead == InitReadSpec /\ [][NextRead]_vars

\* load_to_postgres over the raw pages of one partition, from an empty
\* database, with no unique key or with the first mapped target as the key
InitPipedSpec ==
    /\ FetchIdle
    /\ ValidIdle
    /\ XformIdle
    /\ \E c \in TransformCases :
        /\ mappings = c.mappings
        /\ files \in {OutPath(1) :> ListOf(rows) : rows \in SeqsUpTo(c.rows, MaxPiped)}
        /\ unique_keys \in {{}, {c.mappings[1].target}}
    /\ df_cols = OutCols(mappings)
    /\ df_rows = {}
    /\ table = NoTable
    /\ ledger = <<>>
    /\ last = NoLoad
    /\ keys_seen = {}
    /\ loads = 0

NextPiped == PipedStep /\ UNCHANGED <<fetchVars, validVars>>

SpecPiped == InitPipedSpec /\ [][NextPiped]_vars

(***************************************************************************)
(* Properties of extract_api, checked under SpecFetch.                     *)
(***************************************************************************)
\* a response the session handed back with a status below 400 and a JSON body
IsOk(e) == e.status < 400 /\ e.json
NonEmptyPage(e) == IsOk(e) /\ Truthy(e.body)
\* an empty array, an empty object, or a body that is empty
EmptyPage(e) == e.status < 400 /\ (~e.json \/ ~Truthy(e.body))
PrevSaved(i) == IF i = 1 THEN 0 ELSE log[i - 1].saved
NoFurtherRequest(i) == i = Len(log) /\ pc # "loop"
NextRequestTo(i, u) ==
    IF i < Len(log) THEN log[i + 1].req.url = u ELSE pc = "loop" /\ url = u

\* C1: with the page strategy, when the responses are k non-empty pages followed
\* by an empty one, exactly k+1 requests were issued with the page parameter
\* start_page, start_page+1, ..., exactly the k non-empty pages are persisted,
\* the empty page is not, and no request follows it.
C1_PageStopsOnEmpty ==
    pagination = "page" =>
        /\ \A f \in DOMAIN files : Truthy(files[f])
        /\ \A n \in 1..Len(log) :
            ((\A i \in 1..(n - 1) : NonEmptyPage(log[i])) /\ EmptyPage(log[n])) =>
                /\ Len(log) = n
                /\ \A i \in 1..n : log[i].req.page = <<start_page + i - 1>>
                /\ saved_files = [i \in 1..(n - 1) |-> OutPath(i)]
                /\ \A i \in 1..(n - 1) :
                    OutPath(i) \in DOMAIN files /\ files[OutPath(i)] = log[i].body
                /\ log[n].saved = n - 1
                /\ pc \in {"returned", "raised"}
                /\ (pc = "returned" => ret = saved_files)

C1_Witness ==
    /\ pagination = "page" /\ pc = "returned"
    /\ Len(log) = 3
    /\ NonEmptyPage(log[1]) /\ NonEmptyPage(log[2])
    /\ log[3].status = 200 /\ log[3].json /\ log[3].body = Leaf("[]")
    /\ Len(ret) = 2

\* C6 as stated: after a response of status 401 or any other status >= 400,
\* fetch makes no further request, persists nothing for it and returns
\* exactly the pages persisted before it.
C6_AnyErrorStatusAborts ==
    \A i \in 1..Len(log) :
        log[i].status >= 400 =>
            /\ NoFurtherRequest(i)
            /\ pc = "returned"
            /\ log[i].saved = PrevSaved(i)
            /\ ret = saved_files /\ Len(ret) = PrevSaved(i)

\* the attempts of the run of retried statuses that ends at attempt i
Streak(i) ==
    Cardinality({j \in 1..i : \A k \in j..i : log[k].status \in status_forcelist})

\* C6 amended: a status of 401, or any other status >= 400 outside the retried
\* set {429, 500, 502, 503, 504}, ends the fetch: no further request, nothing
\* persisted for it, and the pages persisted before it are returned.  A status
\* of the retried set is requested again, unchanged, at most 3 times; nothing
\* is persisted for it, and when the third retry fails too the fetch returns
\* the pages persisted before it.
C6_ErrorStatusAbortsAfterBoundedRetry ==
    \A i \in 1..Len(log) :
        log[i].status >= 400 =>
            /\ log[i].saved = PrevSaved(i)
            /\ IF log[i].status \notin status_forcelist
               THEN /\ NoFurtherRequest(i)
                    /\ pc = "returned"
                    /\ ret = saved_files /\ Len(ret) = PrevSaved(i)
               ELSE /\ Streak(i) <= RetryTotal + 1
                    /\ i < Len(log) =>
                        Streak(i) <= RetryTotal /\ log[i + 1].req = log[i].req
                    /\ i = Len(log) =>
                        IF Streak(i) = RetryTotal + 1
                        THEN /\ pc = "returned"
                             /\ ret = saved_files /\ Len(ret) = PrevSaved(i)
                        ELSE pc = "loop"

C6_Witness ==
    /\ pc = "returned"
    /\ Len(log) = 3
    /\ IsOk(log[1]) /\ IsOk(log[2]) /\ log[3].status = 401
    /\ ret = <<OutPath(1), OutPath(2)>>

\* the successful responses before attempt i, and the latest of them
OkBefore(i) == {j \in 1..(i - 1) : IsOk(log[j])}
LastOk(i) == CHOOSE j \in OkBefore(i) : \A k \in OkBefore(i) : k <= j
Token(e) == Get(e.body, cursor_key)

\* C7: with the cursor strategy a request carries no cursor parameter until a
\* response has been received, and afterwards carries the token of the latest
\* response body; a request follows a response only if its token is truthy, and
\* after a response with a truthy token the fetch goes on with that token.
C7_CursorDriven ==
    pagination = "cursor" =>
        /\ \A i \in 1..Len(log) :
            IF OkBefore(i) = {}
            THEN log[i].req.cursor = <<>>
            ELSE /\ IsDict(log[LastOk(i)].body)
                 /\ Truthy(Token(log[LastOk(i)]))
                 /\ log[i].req.cursor = <<Token(log[LastOk(i)])>>
        /\ (Len(log) > 0 /\ IsOk(log[Len(log)])) =>
            IF IsDict(log[Len(log)].body) /\ Truthy(Token(log[Len(log)]))
            THEN pc = "loop" /\ cursor = Token(log[Len(log)])
            ELSE pc # "loop"

C7_Witness ==
    /\ pagination = "cursor" /\ pc = "returned"
    /\ Len(log) = 3
    /\ log[1].req.cursor = <<>>
    /\ log[2].req.cursor = <<Leaf("c1")>>
    /\ log[3].req.cursor = <<Leaf("c2")>>
    /\ IsOk(log[3]) /\ ~Truthy(Token(log[3]))

\* every segment of the path is a key of the body
HasPath(d, path) ==
    \E p \in DOMAIN d : Len(p) >= Len(path) /\ SubSeq(p, 1, Len(path)) = path
\* the value the path leads to
SubDoc(d, path) ==
    LET under == {p \in DOMAIN d : Len(p) >= Len(path) /\ SubSeq(p, 1, Len(path)) = path}
    IN  [q \in {SubSeq(p, Len(path) + 1, Len(p)) : p \in under} |-> d[path \o q]]

SavedIdx ==
    {i \in 1..Len(log) : IsOk(log[i]) /\ ~(pagination = "page" /\ ~Truthy(log[i].body))}
Rank(i) == Cardinality({s \in SavedIdx : s <= i})

\* C9: within one invocation the persisted files are numbered 1, 2, 3, ... in
\* fetch order, one per successful response other than the page strategy's
\* empty terminator, each holding that response's body, and the returned list
\* is exactly these paths in that order.
C9_FilesSequential ==
    /\ saved_files = [j \in 1..Cardinality(SavedIdx) |-> OutPath(j)]
    /\ \A i \in SavedIdx :
        OutPath(Rank(i)) \in DOMAIN files /\ files[OutPath(Rank(i))] = log[i].body
    /\ pc = "returned" => ret = saved_files

C9_Witness ==
    /\ pc = "returned"
    /\ pagination = "next_link"
    /\ Len(log) = 4 /\ Cardinality(SavedIdx) = 3
    /\ ret = <<OutPath(1), OutPath(2), OutPath(3)>>

\* C10: a raw page file, once written, keeps its content: no step removes or
\* rewrites a file of the partition.
C10_FilesImmutable ==
    [][\A i \in DOMAIN files : i \in DOMAIN files' /\ files'[i] = files[i]]_vars

Mapped(rows) ==
    [i \in DOMAIN rows |->
        [c \in DOMAIN rows[i] \ {"ingestion_timestamp", "source"} |-> rows[i][c]]]

\* what transform keeps of each row taken on its own, in row order
RECURSIVE KeptOneByOne(_)
KeptOneByOne(rows) ==
    IF rows = <<>> THEN <<>>
    ELSE Mapped(TransformRows(<<Head(rows)>>, mappings, 0).rows) \o KeptOneByOne(Tail(rows))

\* C5: the output of transform holds exactly the rows whose mapped fields all
\* convert to non-null, each decided on its own: a row that fails is left out
\* and takes no other row with it.
C5_RowKeptIffAllFieldsConvert ==
    tf_runs >= 1 =>
        /\ tf_out.status = "ok"
        /\ Mapped(tf_out.rows) = KeptOneByOne(LoadRows(files))

(***************************************************************************)
(* Claims about load_to_postgres.                                          *)
(***************************************************************************)
RunDatesLogged == {ledger[i].run_date : i \in DOMAIN ledger}

RECURSIVE BagOfRows(_)
BagOfRows(recs) ==
    IF recs = <<>> THEN EmptyBag ELSE SetToBag({Head(recs)}) (+) BagOfRows(Tail(recs))

\* C2: without unique keys, after a successful load for logical date D the
\* destination rows for D are exactly the rows of that load's typed row set,
\* whatever row set earlier loads for D wrote.  Stated where every load so far
\* was for D, so that every destination row is a row for D: the table then
\* holds exactly the rows of the latest row set, as many times as that set
\* holds them.
C2_RowsForDateReplaced ==
    (unique_keys = {} /\ last.status = "success" /\ RunDatesLogged = {last.date})
        => table.rows = BagOfRows(AddRunDate(last.df, unique_keys, last.date).rows)

TableKeys == {KeyOf(r) : r \in BagToSet(table.rows)}

\* C3: with unique keys configured the destination table holds at most one
\* row per key value, only for key values handed to some load, so its row
\* count never exceeds the number of distinct keys seen; and a successful load
\* that repeats the batch of the successful load before it leaves the row
\* count where that load left it.
C3_UpsertOneRowPerKey ==
    unique_keys # {} =>
        /\ \A r \in BagToSet(table.rows) : table.rows[r] = 1
        /\ \A r, q \in BagToSet(table.rows) : SameKey(r, q, unique_keys) => r = q
        /\ TableKeys \subseteq keys_seen
        /\ BagCardinality(table.rows) <= Cardinality(keys_seen)
        /\ (last.repeat /\ last.status = "success") => last.count = last.prev_count

\* the same two-row batch loaded twice: two rows after both loads
C3_Witness ==
    /\ unique_keys # {}
    /\ last.repeat
    /\ last.status = "success"
    /\ Len(last.df.rows) = 2
    /\ last.count = 2
    /\ last.prev_count = 2


StepErrors == {"monitor_error", "transform_error", "create_error", "write_error", "log_error"}
FailedAttempts == SelectSeq(last.attempts, LAMBDA a : a.status = "failed")

\* C11: a load that fails after the engine exists attempts exactly one ledger
\* entry with status failed, rows_processed 0 and the message of the error
\* that made it fail, raises that error to the caller whether or not the
\* ledger write succeeded, and returns no result; the entry it managed to
\* write is the last of the ledger.
C11_FailureLoggedAndReraised ==
    last.status = "failed" =>
        /\ Len(FailedAttempts) = 1
        /\ FailedAttempts[1].rows_processed = 0
        /\ FailedAttempts[1].error = last.raised
        /\ last.raised \in StepErrors
        /\ last.fault = "monitor" => last.raised = "monitor_error"
        /\ last.fault = "transform" => last.raised = "transform_error"
        /\ last.returned = <<>>
        /\ FailedAttempts[1].written =>
            /\ ledger # <<>>
            /\ ledger[Len(ledger)] = [run_id |-> last.run_id, run_date |-> last.date,
                                      rows_processed |-> 0, status |-> "failed",
                                      error |-> last.raised]

\* transform_data raises and the ledger write of the except block raises too
C11_Witness ==
    /\ last.status = "failed"
    /\ last.fault = "transform"
    /\ last.raised = "transform_error"
    /\ ~FailedAttempts[1].written

LedgerKept == Len(ledger') >= Len(ledger) /\ SubSeq(ledger', 1, Len(ledger)) = ledger
FreshRunId == \A i \in DOMAIN ledger : ledger[i].run_id # last'.run_id

\* C12 as stated: every load invocation that finishes adds exactly one entry
\* to the ledger, under a run_id no other entry has, and leaves the entries
\* that were there as they were.
C12_OneEntryPerInvocation ==
    [][loads' = loads + 1 =>
        /\ LedgerKept
        /\ Len(ledger') = Len(ledger) + 1
        /\ ledger'[Len(ledger')].run_id = last'.run_id
        /\ FreshRunId]_vars

\* C12 amended: every load invocation leaves the entries that were there as
\* they were and adds at most one entry, under a run_id no other entry has;
\* it adds exactly one when it returns, and when it raises and the ledger
\* write of its error handler succeeds; it adds none when that write raises.
C12_AtMostOneEntryPerInvocation ==
    [][loads' = loads + 1 =>
        /\ LedgerKept
        /\ FreshRunId
        /\ Len(ledger') <= Len(ledger) + 1
        /\ Len(ledger') = Len(ledger) + 1 <=>
              (last'.returned # <<>> \/ \E i \in DOMAIN last'.attempts : last'.attempts[i].written)
        /\ Len(ledger') = Len(ledger) + 1 => ledger'[Len(ledger')].run_id = last'.run_id]_vars

\* two loads for the same logical date have left two entries
C12_Witness ==
    /\ loads = 2
    /\ Len(ledger) = 2
    /\ ledger[1].run_date = ledger[2].run_date
    /\ ledger[1].run_id # ledger[2].run_id

KeyedBefore(rec) == \E r \in BagToSet(last.before.rows) : SameKey(r, rec, unique_keys)
Stored(rec) == \E r \in BagToSet(table.rows) : \A c \in DOMAIN rec : r[c] = rec[c]
AllKeyColumns == unique_keys = {df_cols[i] : i \in DOMAIN df_cols}

\* C13 as stated: after a successful load on the upsert path every row of the
\* batch whose key was in the destination before the load is stored with the
\* batch row's values in all its columns; when every column is a key column
\* the rows that were there are left as they were.
C13_EveryBatchRowWins ==
    (unique_keys # {} /\ last.status = "success") =>
        /\ \A i \in DOMAIN last.df.rows :
              KeyedBefore(last.df.rows[i]) => Stored(last.df.rows[i])
        /\ AllKeyColumns => \A r \in BagToSet(last.before.rows) : r \in BagToSet(table.rows)

LastOfKey(i) ==
    \A j \in DOMAIN last.df.rows :
        SameKey(last.df.rows[j], last.df.rows[i], unique_keys) => j <= i

\* C13 amended: after a successful load on the upsert path, for every key of
\* the batch that was in the destination before the load, the destination row
\* holds the values of the last batch row with that key; when every column is
\* a key column the rows that were there are left as they were, and a load on
\* the upsert path raises nothing.
C13_LastBatchRowWins ==
    unique_keys # {} =>
        /\ loads > 0 => last.status = "success"
        /\ \A i \in DOMAIN last.df.rows :
              (KeyedBefore(last.df.rows[i]) /\ LastOfKey(i)) => Stored(last.df.rows[i])
        /\ AllKeyColumns => \A r \in BagToSet(last.before.rows) : r \in BagToSet(table.rows)

\* a stored PushEvent row of key e1 is overwritten by the batch's PullEvent row
C13_Witness ==
    /\ unique_keys = {"event_id"}
    /\ last.status = "success"
    /\ Rec("e1", "PushEvent") \in BagToSet(last.before.rows)
    /\ last.df.rows = <<Rec("e1", "PullEvent")>>
    /\ Rec("e1", "PullEvent") \in BagToSet(table.rows)
    /\ Rec("e1", "PushEvent") \notin BagToSet(table.rows)

\* C14: a load whose typed row set is empty appends one ledger entry with
\* status success and rows_processed 0, returns status success and
\* rows_processed 0, and leaves the destination table as it was, created or not.
C14_EmptyLoadIsSuccess ==
    (loads > 0 /\ last.df.rows = <<>>) =>
        /\ last.returned = <<[status |-> "success", rows_processed |-> 0]>>
        /\ Len(last.attempts) = 1
        /\ Len(ledger) = loads
        /\ ledger[Len(ledger)] = [run_id |-> last.run_id, run_date |-> last.date,
                                  rows_processed |-> 0, status |-> "success", error |-> ""]
        /\ table = last.before

\* an empty load after one that created and filled the table
C14_Witness ==
    /\ loads = 2
    /\ last.df.rows = <<>>
    /\ last.status = "success"
    /\ table.exists
    /\ table.rows # EmptyBag
    /\ table = last.before

(***************************************************************************)
(* Claims about validate_schema and the DAG that calls it.                 *)
(***************************************************************************)
RawRows == LoadRows(files)
Declared == schema_cfg # NoSchema
Validated == report.status # "none"
Messages(errors) == SelectSeq(errors, LAMBDA e : e.kind = "text")
FieldHasNull(f) == \E i \in DOMAIN RawRows : Cell(RawRows[i], f) = "null"

\* C15: with a declared schema validate_schema returns at the gate, without
\* the unique-key and non-null checks, exactly when invalid_rows / total_rows
\* is above 5%; at 5% or less it goes on and returns a report that holds one
\* message for a declared unique-key set with duplicate rows and one for each
\* declared non-null field that holds a null, with valid_rows and invalid_rows
\* still adding up to the rows of the page set.
C15_GateThenChecks ==
    (Validated /\ Declared /\ RawRows # <<>>) =>
        /\ report.status = "returned"
        /\ report.gated <=> 20 * report.invalid_rows > Len(RawRows)
        /\ report.valid_rows + report.invalid_rows = Len(RawRows)
        /\ report.gated => Messages(report.errors) = <<>>
        /\ ~report.gated =>
              Messages(report.errors) =
                  (IF schema_cfg.unique_keys # <<>> /\ HasDuplicates(RawRows, schema_cfg.unique_keys)
                   THEN <<DuplicateMessage(schema_cfg.unique_keys)>> ELSE <<>>)
                  \o [k \in DOMAIN SelectSeq(schema_cfg.non_null_fields, FieldHasNull) |->
                         NullMessage(SelectSeq(schema_cfg.non_null_fields, FieldHasNull)[k])]

\* what validate_schema would report for the raw pages the DAG run validates
RunReport == ValidateRows(RawRows, schema_cfg)
Scheduled == dag_run.import # "unparsed"
StageOutcome(name) ==
    IF \E k \in DOMAIN dag_run.stages : dag_run.stages[k].name = name
    THEN dag_run.stages[CHOOSE k \in DOMAIN dag_run.stages : dag_run.stages[k].name = name].outcome
    ELSE "not_run"

\* C16: in a scheduled run whose validation report has an invalid-row ratio
\* above 0 and at most 5%, the validate stage completes without failing.
C16_SmallRatioPasses ==
    (/\ Scheduled
     /\ RunReport.status = "returned"
     /\ RunReport.invalid_rows > 0
     /\ 20 * RunReport.invalid_rows <= Len(RawRows))
        => StageOutcome("validate") = "success"

IsBenign(e) ==
    /\ e.kind = "text"
    /\ \/ e.text = <<"No data found.">>
       \/ Head(e.text) = "Duplicate values found in unique_keys: "

\* C17: in a scheduled run the validate stage completes without failing when
\* the report has invalid_rows 0 and no error other than the no-data marker
\* and duplicate-unique-key messages, and fails when the report holds any
\* other error.
C17_OnlyBenignPasses ==
    (Scheduled /\ RunReport.status = "returned") =>
        /\ (/\ RunReport.invalid_rows = 0
            /\ \A k \in DOMAIN RunReport.errors : IsBenign(RunReport.errors[k]))
              => StageOutcome("validate") = "success"
        /\ (\E k \in DOMAIN RunReport.errors : ~IsBenign(RunReport.errors[k]))
              => StageOutcome("validate") = "failed"

\* C18: a scheduled run executes extract, validate, transform, load in this
\* order, each after the one before it completed without failing, and stops
\* at the first stage that fails, so that transform and load do not run when
\* validate fails.
C18_StagesInOrder ==
    Scheduled =>
        /\ dag_run.stages # <<>>
        /\ Len(dag_run.stages) <= Len(TaskOrder)
        /\ \A k \in DOMAIN dag_run.stages :
              /\ dag_run.stages[k].name = TaskOrder[k]
              /\ k < Len(dag_run.stages) => dag_run.stages[k].outcome = "success"
        /\ Len(dag_run.stages) < Len(TaskOrder)
              => dag_run.stages[Len(dag_run.stages)].outcome = "failed"
        /\ table = NoTable
              \/ StageOutcome("load") = "success"
        /\ ledger = <<>> \/ StageOutcome("load") # "not_run"

\* C19: when the raw page set holds no row, validate_schema returns
\* valid_rows 0, invalid_rows 0 and the one error "No data found.", with or
\* without a declared schema, and writes neither invalid_rows.json nor an
\* inferred schema.
C19_NoDataReport ==
    (Validated /\ RawRows = <<>>) =>
        /\ report.status = "returned"
        /\ report.valid_rows = 0
        /\ report.invalid_rows = 0
        /\ report.errors = <<NoDataFound>>
        /\ invalid_rows_file = <<>>
        /\ inferred_file = <<>>

\* a page set of one file holding [] validated against a declared schema
C19_Witness ==
    /\ Validated
    /\ files # <<>>
    /\ RawRows = <<>>
    /\ Declared
    /\ report.errors = <<NoDataFound>>

\* a value that cannot be coerced to the declared type of its column, or a
\* null in a column declared non-null
FailsColumn(i) ==
    \E k \in DOMAIN schema_cfg.required_columns :
        LET col == schema_cfg.required_columns[k]
            cell == Cell(RawRows[i], col)
        IN  \/ cell # "null" /\ ~Coercible(cell, schema_cfg.dtypes[col])
            \/ /\ cell = "null"
               /\ \E n \in DOMAIN schema_cfg.non_null_fields : schema_cfg.non_null_fields[n] = col
ColumnMissing ==
    \E k \in DOMAIN schema_cfg.required_columns :
        schema_cfg.required_columns[k] \notin FrameColumns(RawRows)

\* C20: with a declared schema invalid_rows is the number of rows with at
\* least one column that fails its declared type (a value that cannot be
\* coerced, or a null where the column is declared non-null), each such row
\* counted once and no other row counted; when a required column is missing
\* from the data, every row is counted.
C20_InvalidRowsCount ==
    (Validated /\ Declared /\ RawRows # <<>>) =>
        /\ report.status = "returned"
        /\ report.invalid_rows =
              IF ColumnMissing THEN Len(RawRows)
              ELSE Cardinality({i \in DOMAIN RawRows : FailsColumn(i)})

(***************************************************************************)
(* Further claims about transform_data.                                    *)
(***************************************************************************)
Targets == [j \in DOMAIN mappings |-> mappings[j].target]
ColumnsOf(out) == {out.cols[k] : k \in DOMAIN out.cols}

\* C21: the columns of every output of transform are the mapped targets in
\* config order, then ingestion_timestamp, then source, and every row holds
\* exactly these columns; this holds for an output with rows, for an output
\* from which every row was dropped, and for a page set without rows, for
\* which transform returns zero rows under that header and does not raise.
C21_OutputColumns ==
    tf_runs >= 1 =>
        /\ LoadRows(files) = <<>> => (tf_out.status = "ok" /\ tf_out.rows = <<>>)
        /\ tf_out.status = "ok" =>
              /\ tf_out.cols = Targets \o <<"ingestion_timestamp", "source">>
              /\ \A i \in DOMAIN tf_out.rows : DOMAIN tf_out.rows[i] = ColumnsOf(tf_out)

\* every row of a page set with rows was dropped
C21_Witness ==
    /\ tf_runs >= 1
    /\ Len(LoadRows(files)) >= 2
    /\ tf_out.status = "ok"
    /\ tf_out.rows = <<>>
    /\ Len(invalid_file) = Len(LoadRows(files))
    /\ Len(tf_out.cols) = Len(mappings) + 2

(***************************************************************************)
(* Further claims about extract_api.                                       *)
(***************************************************************************)
SleptAfter(i) == \E k \in DOMAIN sleeps : sleeps[k].after = i
\* attempt i ended an iteration of the loop and another request follows it
RequestFollows(i) == IsOk(log[i]) /\ (i < Len(log) \/ pc = "loop")

\* the sleeps of an invocation when each lasts ms milliseconds: one after
\* every iteration that another request follows, none anywhere else, and
\* none at all when ms is 0
SleepsBetweenRequests(ms) ==
    /\ \A k \in DOMAIN sleeps : sleeps[k].ms = ms /\ ms > 0
    /\ \A j, k \in DOMAIN sleeps : j < k => sleeps[j].after < sleeps[k].after
    /\ \A k \in DOMAIN sleeps : sleeps[k].after \in 1..Len(log)
    /\ \A i \in 1..Len(log) : SleptAfter(i) <=> (ms > 0 /\ RequestFollows(i))

\* C22 as stated: fetch sleeps 60 / requests_per_minute seconds after an
\* iteration exactly when another request follows it, never after its last
\* request or an aborted one, and does not sleep at all when
\* requests_per_minute is not set.
C22_NoSleepWhenUnset ==
    SleepsBetweenRequests(IF rate_limit = <<>> \/ rate_limit = <<0>> THEN 0
                          ELSE 60000 \div rate_limit[1])

\* C22 amended: the same, with requests_per_minute taken as 60 when it is not
\* set, so that the sleep then lasts one second; there is no sleep when it is
\* set to 0.
C22_SleepDefaultsToOneSecond ==
    SleepsBetweenRequests(IF rate_limit = <<>> THEN 1000
                          ELSE IF rate_limit = <<0>> THEN 0
                          ELSE 60000 \div rate_limit[1])

\* three pages and the empty page, one second slept after each of the three
C22_Witness ==
    /\ rate_limit = <<>>
    /\ pagination = "page" /\ pc = "returned"
    /\ Len(log) = 4 /\ Len(ret) = 3
    /\ sleeps = [k \in 1..3 |-> [after |-> k, ms |-> 1000]]

\* attempt j brought the loop back to where attempt i had brought it: the same
\* response to a request for the same URL with the same cursor.  The page
\* parameter is left out: it is what a server that ignores it does not see.
Repeats(i, j) ==
    /\ i < j
    /\ IsOk(log[i]) /\ IsOk(log[j])
    /\ log[i].req.url = log[j].req.url
    /\ log[i].req.cursor = log[j].req.cursor
    /\ log[i].body = log[j].body

\* C25: every fetch invocation ends after a bounded number of requests,
\* whatever a server with finitely many distinct pages answers, a server that
\* ignores the page parameter and next links that point back to an earlier
\* page included.  Such a server answers a repeated request as it answered it
\* before, so a loop that goes on after a repeated response goes on forever:
\* the claim is that no request follows a response that repeats an earlier one.
C25_NoRequestAfterRepeat ==
    \A i, j \in 1..Len(log) : Repeats(i, j) => NoFurtherRequest(j)

\* C27: once a fetch has returned, the page files of the partition are exactly
\* the files of the returned list, also when an earlier fetch of the same
\* partition stored more pages, so that validate and transform read no page
\* of an earlier fetch.
C27_PartitionHoldsReturnedFiles ==
    pc = "returned" =>
        /\ DOMAIN files = {ret[i] : i \in DOMAIN ret}
        /\ Len(LoadRows(files)) = Len(ConcatPages(files, ret))

(***************************************************************************)
(* Further claims about load_to_postgres.                                  *)
(***************************************************************************)
\* C23: a load whose write raises, at the insert that follows the delete or
\* part-way through an upsert batch, leaves the rows of the destination as
\* they were before the load: the delete is undone and no row of the batch
\* stays written.
C23_FailedWriteLeavesRows ==
    (last.status = "failed" /\ last.raised = "write_error") =>
        table.rows = last.before.rows

\* a delete-then-insert load fails at its write over a table that holds rows
\* of its logical date
C23_Witness ==
    /\ unique_keys = {}
    /\ last.status = "failed"
    /\ last.fault = "write"
    /\ last.df.rows # <<>>
    /\ \E r \in BagToSet(last.before.rows) : r["run_date"] = last.date
    /\ table.rows = last.before.rows

(***************************************************************************)
(* Claims about validate_schema and transform_data together.               *)
(***************************************************************************)
\* C24: over any raw page set validate and transform read the same rows in
\* the same order, and so, once both have run, the validator's valid_rows +
\* invalid_rows is the number of rows transform kept plus the number it
\* dropped.
C24_SameRowsRead ==
    /\ AllRows(files) = LoadRows(files)
    /\ (Validated /\ tf_runs >= 1) =>
          /\ report.status = "returned"
          /\ tf_out.status = "ok"
          /\ report.valid_rows + report.invalid_rows = Len(tf_out.rows) + Len(invalid_file)

\* C28: on the delete-then-insert path, when a load with rows finds no
\* destination table, the table it creates holds every column it then
\* deletes by and inserts, the injected run_date included, and the load
\* succeeds.
C28_FirstLoadSucceeds ==
    (unique_keys = {} /\ loads > 0 /\ last.df.rows # <<>> /\ ~last.before.exists) =>
        /\ table.exists
        /\ "run_date" \in table.cols
        /\ ColSet(AddRunDate(last.df, unique_keys, last.date)) \subseteq table.cols
        /\ last.status = "success"

KeyInBatch(r) == \E i \in DOMAIN last.df.rows : SameKey(r, last.df.rows[i], unique_keys)

\* C29: a load for logical date D leaves the rows it does not own as they
\* were: on the delete-then-insert path the destination holds every row of
\* another logical date as many times as before the load, none deleted and
\* none added; on the upsert path every row whose key is not in the batch is
\* still there unchanged.
C29_OtherRowsUntouched ==
    loads > 0 =>
        /\ unique_keys = {} =>
              \A r \in BagToSet(table.rows) \cup BagToSet(last.before.rows) :
                  r["run_date"] # last.date =>
                      CopiesIn(r, table.rows) = CopiesIn(r, last.before.rows)
        /\ unique_keys # {} =>
              \A r \in BagToSet(last.before.rows) :
                  ~KeyInBatch(r) => CopiesIn(r, table.rows) = CopiesIn(r, last.before.rows)

\* the SQL type the column of a mapping of each type is to get
TypeWanted(type) ==
    CASE type = "int" -> "INTEGER"
      [] type = "float" -> "DOUBLE PRECISION"
      [] type = "datetime" -> "TIMESTAMP"
      [] OTHER -> "VARCHAR(500)"

\* C26: in the destination table that load creates from the output of
\* transform, the column of an int mapping is INTEGER, of a float mapping
\* DOUBLE PRECISION, of a datetime mapping TIMESTAMP, the column of a mapping
\* of any other type and the source column VARCHAR(500).  The
\* ingestion_timestamp column, which holds an instant, is left out.
C26_ColumnTypesFollowMappings ==
    table.exists =>
        /\ \A j \in DOMAIN mappings :
              table.types[mappings[j].target] = TypeWanted(mappings[j].type)
        /\ table.types["source"] = "VARCHAR(500)"

(***************************************************************************)
(* Further claims about validate_schema.                                   *)
(***************************************************************************)
\* C30: in every report validate_schema returns for a page set with rows,
\* with a declared schema or without one and whether or not it returns at the
\* 5% gate, valid_rows + invalid_rows is the number of rows read, and neither
\* count is negative.
C30_CountsAddUp ==
    (Validated /\ report.status = "returned" /\ RawRows # <<>>) =>
        /\ report.valid_rows + report.invalid_rows = Len(RawRows)
        /\ report.valid_rows >= 0
        /\ report.invalid_rows >= 0

\* a report returned at the gate: one row of two fails two of its columns
C30_Witness ==
    /\ Validated /\ Declared
    /\ report.gated
    /\ Len(RawRows) = 2
    /\ report.valid_rows = 1
    /\ report.invalid_rows = 1
    /\ Len(SelectSeq(report.errors, LAMBDA e : e.index = <<2>>)) = 2

====
